---- MODULE Spec2Model ----
(***************************************************************************)
(* A model of src/public_housing.py: the start-up pipeline (parallel       *)
(* fetch of the recent periods, merge, normalization) and the query        *)
(* callbacks (filtered_data / df_filter, update_text).                     *)
(*                                                                         *)
(* Text is a sequence of one-character strings, so that the string         *)
(* rewrites of the normalizer and the parses of the filter are computed.   *)
(* A DataFrame is a record [cols, rows]: cols the set of column names,     *)
(* rows a sequence of records whose fields are exactly cols.  An operation *)
(* that polars makes raise yields a frame whose err field names the error. *)
(***************************************************************************)
EXTENDS Integers, Sequences, FiniteSets, Bags, TLC

VARIABLES
    dataset,     \* which remote dataset the API serves during this run
    pc,          \* position of the main thread
    nsubmitted,  \* how many of recent_periods have been submitted
    nthreads,    \* worker threads the executor has spawned
    fstate,      \* per period: "new" | "queued" | "running" | "done" | "consumed"
    outcome,     \* per period, once read: "ok" | "non200" | "transport"
    requests,    \* per period: number of HTTP requests issued
    recent_df,   \* the merged raw table
    exc,         \* the exception that ended the start-up, or "none"
    df,          \* the canonical table
    data_store,  \* the data-store children: df.write_json() at layout time
    widgets,     \* the values of the input widgets at the last submit
    view,        \* the filtered-data store: output of filtered_data
    again,       \* df_filter applied a second time to the view
    text         \* the dynamic-text output of update_text

vars == <<dataset, pc, nsubmitted, nthreads, fstate, outcome, requests,
          recent_df, exc, df, data_store, widgets, view, again, text>>

fetchVars == <<nsubmitted, nthreads, fstate, outcome, requests, recent_df>>
queryVars == <<widgets, view, again, text>>

----------------------------------------------------------------------------
(* Bounds and program constants *)

\* "now", as the number of months since 2024-01 (inclusive)
NowMonths == 7

\* total_periods[-6:]
RecentWindow == 6

\* (mutant) a pool with a thread for every period of the window
max_workers_unbounded == RecentWindow

\* ThreadPoolExecutor(max_workers=4)
max_workers == 4

----------------------------------------------------------------------------
(* Text helpers *)

Digits == {"0", "1", "2", "3", "4", "5", "6", "7", "8", "9"}

DigitVal(c) ==
    CASE c = "0" -> 0 [] c = "1" -> 1 [] c = "2" -> 2 [] c = "3" -> 3
      [] c = "4" -> 4 [] c = "5" -> 5 [] c = "6" -> 6 [] c = "7" -> 7
      [] c = "8" -> 8 [] c = "9" -> 9

\* does pat occur in s at position i
MatchAt(s, pat, i) ==
    /\ i >= 1
    /\ i + Len(pat) - 1 <= Len(s)
    /\ SubSeq(s, i, i + Len(pat) - 1) = pat

\* position of the first occurrence of pat in s, 0 when there is none
FindFirst(s, pat) ==
    LET hits == {i \in 1..Len(s) : MatchAt(s, pat, i)}
    IN  IF hits = {} THEN 0 ELSE CHOOSE i \in hits : \A j \in hits : i <= j

\* polars str.replace: only the first match is replaced
str_replace(s, pat, rep) ==
    LET i == FindFirst(s, pat)
    IN  IF i = 0 THEN s
        ELSE SubSeq(s, 1, i - 1) \o rep \o SubSeq(s, i + Len(pat), Len(s))

\* polars str.contains with a pattern free of regex metacharacters
str_contains(s, pat) == pat = <<>> \/ \E i \in 1..Len(s) : MatchAt(s, pat, i)

\* str.upper over the letters the model uses
UpperChar(c) ==
    CASE c = "a" -> "A" [] c = "i" -> "I" [] c = "m" -> "M" [] c = "n" -> "N"
      [] c = "s" -> "S" [] c = "t" -> "T" [] OTHER -> c
str_upper(s) == [i \in 1..Len(s) |-> UpperChar(s[i])]

\* a strict cast of text to an integer (also Float32 of integral text):
\* non-empty and digits only
IsNumeral(s) == Len(s) > 0 /\ \A i \in 1..Len(s) : s[i] \in Digits
RECURSIVE NumeralValue(_)
NumeralValue(s) ==
    IF s = <<>> THEN 0
    ELSE 10 * NumeralValue(SubSeq(s, 1, Len(s) - 1)) + DigitVal(s[Len(s)])

DigitChar(d) ==
    CASE d = 0 -> "0" [] d = 1 -> "1" [] d = 2 -> "2" [] d = 3 -> "3"
      [] d = 4 -> "4" [] d = 5 -> "5" [] d = 6 -> "6" [] d = 7 -> "7"
      [] d = 8 -> "8" [] d = 9 -> "9"

\* the decimal numeral of n, 0 <= n <= 99
Numeral(n) ==
    IF n < 10 THEN <<DigitChar(n)>>
    ELSE <<DigitChar(n \div 10), DigitChar(n % 10)>>

----------------------------------------------------------------------------
(* Numbers: a float is the exact fraction n/d (Float32 rounding is not     *)
(* modelled); d = 0 is the result of a division by zero (inf).             *)

Num(n, d) == [n |-> n, d |-> d]
IsFinite(x) == x.d > 0
NumMul(x, y) == Num(x.n * y.n, x.d * y.d)
NumDiv(x, y) == Num(x.n * y.d, x.d * y.n)
\* a/b <= c/d for a, c >= 0 and b, d > 0, by comparing the integer parts
\* and then the inverted remainders (no product is formed)
RECURSIVE FracLe(_, _, _, _)
FracLe(a, b, c, d) ==
    IF a \div b # c \div d THEN a \div b < c \div d
    ELSE IF a % b = 0 THEN TRUE
    ELSE IF c % d = 0 THEN FALSE
    ELSE FracLe(d, c % d, b, a % b)
NumLe(x, y) ==
    IF IsFinite(x) /\ IsFinite(y) THEN FracLe(x.n, x.d, y.n, y.d)
    ELSE IsFinite(x) \/ ~IsFinite(y)
NumGe(x, y) == NumLe(y, x)

\* (pl.col("area_sqm") * 10.7639)
SqftPerSqm == Num(107639, 10000)

----------------------------------------------------------------------------
(* DataFrames *)

NoErr == "none"

Frame(cols, rows) == [cols |-> cols, rows |-> rows, err |-> NoErr]
Raised(e) == [cols |-> {}, rows |-> <<>>, err |-> e]
IsOk(f) == f.err = NoErr

\* pl.DataFrame() and pl.DataFrame([]) : no columns, no rows
EmptyFrame == Frame({}, <<>>)

\* pl.DataFrame(list of dicts): the columns are the keys of the records
DataFrame(dicts) ==
    IF dicts = <<>> THEN EmptyFrame ELSE Frame(DOMAIN dicts[1], dicts)

\* DataFrame.to_dicts() / write_json(): the rows, without the schema
to_dicts(f) == f.rows

\* the rows of a frame as a bag
RowBag(rows) ==
    LET vals == {rows[i] : i \in 1..Len(rows)}
    IN  [r \in vals |-> Cardinality({i \in 1..Len(rows) : rows[i] = r})]

----------------------------------------------------------------------------
(* Periods *)

\* total_periods: the months 2024-01 .. now, as indices 1 .. NowMonths
total_periods == [i \in 1..NowMonths |-> i]

\* (mutant) seq[:n], the first n entries
LastN_head(seq, n) == IF n >= Len(seq) THEN seq ELSE SubSeq(seq, 1, n)

\* Python's seq[-n:] : the last n entries; all of them when n = 0 or n > len
LastN(seq, n) ==
    IF n = 0 \/ n >= Len(seq) THEN seq
    ELSE SubSeq(seq, Len(seq) - n + 1, Len(seq))

recent_periods == LastN(total_periods, RecentWindow)
Periods == {recent_periods[i] : i \in 1..Len(recent_periods)}

----------------------------------------------------------------------------
(* The remote data: what the API holds for a period, per dataset.          *)
(* The "clean" dataset is well formed.  The "dirty" one holds records of   *)
(* floor area 0, records whose remaining lease is not a lease description  *)
(* and a record whose resale price is not a number.                        *)

Datasets == {"clean", "dirty"}

df_cols == <<"month", "town", "flat_type", "block", "street_name",
             "storey_range", "floor_area_sqm", "remaining_lease",
             "resale_price">>

T_year == <<" ", "y", "e", "a", "r">>
T_month == <<" ", "m", "o", "n", "t", "h">>

\* "<N> years" / "<N> year"
YearsText(n) == Numeral(n) \o T_year \o (IF n = 1 THEN <<>> ELSE <<"s">>)
\* "<N> years <M> months", singular unit words for 1
YearsMonthsText(n, m) ==
    YearsText(n) \o <<" ">> \o Numeral(m) \o T_month
    \o (IF m = 1 THEN <<>> ELSE <<"s">>)

RawRecord(month, town, flat_type, block, street, storey, area, lease, price) ==
    [month |-> month, town |-> town, flat_type |-> flat_type, block |-> block,
     street_name |-> street, storey_range |-> storey, floor_area_sqm |-> area,
     remaining_lease |-> lease, resale_price |-> price]

TownOf(p) == IF p % 2 = 0 THEN "BEDOK" ELSE "QUEENSTOWN"

RemoteRecords(ds, p) ==
    LET first ==
            RawRecord(p, TownOf(p), <<"4", " ", "R", "O", "O", "M">>, <<"1">>,
                      <<"M", "A", "I", "N">>,
                      <<"0", "4", " ", "T", "O", " ", "0", "6">>,
                      IF ds = "dirty" /\ p % 3 = 0 THEN <<"0">> ELSE <<"9", "0">>,
                      YearsMonthsText(61, 4),
                      <<"5", "0", "0">>)
        second ==
            RawRecord(p, TownOf(p), <<"3", " ", "R", "O", "O", "M">>, <<"2">>,
                      <<"T", "A", "M", "A", "N">>,
                      <<"0", "1", " ", "T", "O", " ", "0", "3">>,
                      <<"6", "5">>,
                      IF ds = "dirty" /\ p % 3 = 1 THEN <<"N", "A">>
                      ELSE YearsText(70),
                      <<"3", "0", "0">>)
        third ==
            RawRecord(p, TownOf(p),
                      <<"E", "X", "E", "C", "U", "T", "I", "V", "E">>, <<"3">>,
                      <<"M", "A", "I", "N">>,
                      <<"1", "0", " ", "T", "O", " ", "1", "2">>,
                      <<"9", "5">>, YearsMonthsText(95, 1),
                      IF ds = "dirty" /\ p % 6 = 5 THEN <<"N", "A">>
                      ELSE <<"6", "0", "0">>)
    IN  IF p % 3 = 0 THEN <<first>>
        ELSE IF p % 3 = 1 THEN <<first, second>>
        ELSE <<third>>

----------------------------------------------------------------------------
(* Fetch and merge *)

\* fetch_data_for_period once requests.get has returned a response
fetch_data_for_period(ds, period, status) ==
    IF status = "ok" THEN DataFrame(RemoteRecords(ds, period))
    ELSE EmptyFrame

\* pl.concat([acc, other], how='vertical'): a frame without columns takes
\* the other's columns; otherwise the widths must agree
concat(acc, other) ==
    IF acc.cols = {} THEN other
    ELSE IF acc.cols # other.cols THEN Raised("ShapeError")
    ELSE Frame(acc.cols, acc.rows \o other.rows)

Responses == {"ok", "non200", "transport"}

Running == {p \in Periods : fstate[p] = "running"}
Queued == {p \in Periods : fstate[p] = "queued"}
AllFetched == \A p \in Periods : fstate[p] \in {"done", "consumed"}

\* executor.submit for the next period of recent_periods; the executor
\* spawns a thread when none is idle and fewer than max_workers exist
Submit ==
    /\ pc = "submit"
    /\ LET p == recent_periods[nsubmitted + 1]
       IN  fstate' = [fstate EXCEPT ![p] = "queued"]
    /\ nsubmitted' = nsubmitted + 1
    /\ nthreads' = IF nthreads - Cardinality(Running) = 0 /\ nthreads < max_workers
                   THEN nthreads + 1 ELSE nthreads
    /\ pc' = IF nsubmitted + 1 = Len(recent_periods) THEN "collect" ELSE "submit"
    /\ UNCHANGED <<dataset, outcome, requests, recent_df, exc, df, data_store, queryVars>>

\* an idle worker thread takes the oldest queued work item and calls
\* requests.get
Start(p) ==
    /\ fstate[p] = "queued"
    /\ \A q \in Queued : p <= q
    /\ Cardinality(Running) < nthreads
    /\ fstate' = [fstate EXCEPT ![p] = "running"]
    /\ requests' = [requests EXCEPT ![p] = @ + 1]
    /\ UNCHANGED <<dataset, pc, nsubmitted, nthreads, outcome, recent_df, exc,
                   df, data_store, queryVars>>

\* requests.get returns or raises inside the worker: the future completes.
\* What it completed with is drawn in Collect, where the program first
\* observes it (future.result()).
Respond(p) ==
    /\ fstate[p] = "running"
    /\ fstate' = [fstate EXCEPT ![p] = "done"]
    /\ UNCHANGED <<dataset, pc, nsubmitted, nthreads, outcome, requests,
                   recent_df, exc, df, data_store, queryVars>>

\* one iteration of "for future in as_completed(futures)": future.result()
\* re-raises what requests.get raised ("transport"), else the response was a
\* 200 ("ok") or another status ("non200") and the batch is concatenated
Collect(p, r) ==
    /\ pc = "collect"
    /\ fstate[p] = "done"
    /\ fstate' = [fstate EXCEPT ![p] = "consumed"]
    /\ outcome' = [outcome EXCEPT ![p] = r]
    /\ IF r = "transport"
       THEN /\ exc' = "ConnectionError"
            /\ pc' = "join"
            /\ UNCHANGED recent_df
       ELSE LET mth_df == fetch_data_for_period(dataset, p, r)
                merged == concat(recent_df, mth_df)
            IN  IF IsOk(merged)
                THEN /\ recent_df' = merged
                     /\ pc' = IF \A q \in Periods \ {p} : fstate[q] = "consumed"
                              THEN "join" ELSE "collect"
                     /\ UNCHANGED exc
                ELSE /\ exc' = merged.err
                     /\ pc' = "join"
                     /\ UNCHANGED recent_df
    /\ UNCHANGED <<dataset, nsubmitted, nthreads, requests, df, data_store, queryVars>>

\* (mutant) leaving the block without waiting for the work items
Join_nowait ==
    /\ pc = "join"
    /\ pc' = IF exc = NoErr THEN "normalize" ELSE "crashed"
    /\ UNCHANGED <<dataset, fetchVars, exc, df, data_store, queryVars>>

\* leaving the with block: shutdown(wait=True) returns once every work item
\* has run; a pending exception then propagates
Join ==
    /\ pc = "join"
    /\ AllFetched
    /\ pc' = IF exc = NoErr THEN "normalize" ELSE "crashed"
    /\ UNCHANGED <<dataset, fetchVars, exc, df, data_store, queryVars>>

----------------------------------------------------------------------------
(* Normalization *)

table_cols == {"month", "town", "flat", "street_name", "storey_range",
               "lease_left", "area_sqm", "area_sqft", "price_sqm",
               "price_sqft", "price"}

\* lease_mths: str.replace("s", "").str.replace(" year", "y")
\*                .str.replace(" month", "m")
lease_mths(remaining_lease) ==
    str_replace(str_replace(str_replace(remaining_lease, <<"s">>, <<>>),
                            T_year, <<"y">>),
                T_month, <<"m">>)

\* flat: " ROOM" -> "RM", "EXECUTIVE" -> "EC", "MULTI-GENERATION" -> "MG"
flat_code(flat_type) ==
    str_replace(
        str_replace(
            str_replace(flat_type, <<" ", "R", "O", "O", "M">>, <<"R", "M">>),
            <<"E", "X", "E", "C", "U", "T", "I", "V", "E">>, <<"E", "C">>),
        <<"M", "U", "L", "T", "I", "-", "G", "E", "N", "E", "R", "A", "T", "I",
          "O", "N">>, <<"M", "G">>)

\* storey_range: " TO " -> "-"
storey_code(storey_range) ==
    str_replace(storey_range, <<" ", "T", "O", " ">>, <<"-">>)

\* one row of the with_columns chain, once the casts have succeeded
CanonicalRecord(r) ==
    LET area_sqm == Num(NumeralValue(r.floor_area_sqm), 1)
        price == Num(NumeralValue(r.resale_price), 1)
        area_sqft == NumMul(area_sqm, SqftPerSqm)
    IN  [month |-> r.month,
         town |-> r.town,
         flat |-> flat_code(r.flat_type),
         street_name |-> <<"B", "L", "K", " ">> \o r.block \o <<" ">>
                         \o r.street_name,
         storey_range |-> storey_code(r.storey_range),
         lease_left |-> lease_mths(r.remaining_lease),
         area_sqm |-> area_sqm,
         area_sqft |-> area_sqft,
         price_sqm |-> NumDiv(price, area_sqm),
         price_sqft |-> NumDiv(price, area_sqft),
         price |-> price]

\* lines 59-83: the nine raw columns are renamed by position, area and price
\* are cast strictly, the derived columns are added
normalize(raw) ==
    IF Cardinality(raw.cols) # Len(df_cols) THEN Raised("ShapeError")
    ELSE IF \E i \in 1..Len(raw.rows) :
                \/ ~IsNumeral(raw.rows[i].floor_area_sqm)
                \/ ~IsNumeral(raw.rows[i].resale_price)
    THEN Raised("InvalidOperationError")
    ELSE Frame(table_cols,
               [i \in 1..Len(raw.rows) |-> CanonicalRecord(raw.rows[i])])

\* the data processing that follows the with block
Normalize ==
    /\ pc = "normalize"
    /\ LET out == normalize(recent_df)
       IN  IF IsOk(out)
           THEN /\ df' = out
                /\ data_store' = to_dicts(out)
                /\ pc' = "serving"
                /\ UNCHANGED exc
           ELSE /\ exc' = out.err
                /\ pc' = "crashed"
                /\ UNCHANGED <<df, data_store>>
    /\ UNCHANGED <<dataset, fetchVars, queryVars>>

----------------------------------------------------------------------------
(* The start-up pipeline *)

NoWidgets == [submitted |-> FALSE]
NoView == [state |-> "unset"]

\* the module starts: nothing submitted, both tables empty
InitWith(ds) ==
    /\ dataset = ds
    /\ pc = "submit"
    /\ nsubmitted = 0
    /\ nthreads = 0
    /\ fstate = [p \in Periods |-> "new"]
    /\ outcome = [p \in Periods |-> "none"]
    /\ requests = [p \in Periods |-> 0]
    /\ recent_df = EmptyFrame
    /\ exc = NoErr
    /\ df = EmptyFrame
    /\ data_store = <<>>
    /\ widgets = NoWidgets
    /\ view = NoView
    /\ again = NoView
    /\ text = NoView

Init == \E ds \in Datasets : InitWith(ds)

Next ==
    \/ Submit
    \/ \E p \in Periods : Start(p)
    \/ \E p \in Periods : Respond(p)
    \/ \E p \in Periods, r \in Responses : Collect(p, r)
    \/ Join
    \/ Normalize

Spec == Init /\ [][Next]_vars

----------------------------------------------------------------------------
(* The filter query *)

\* an optional number of a dcc.Input: None is <<>>, a value v is <<v>>
None == <<>>
Some(v) == <<v>>
\* Python truthiness of an optional number: None and 0 are false
Truthy(x) == x # None /\ x[1] # 0

\* selected_mths: the months 2024-01 .. now
selected_mths == [i \in 1..NowMonths |-> i]

convert_price_area(price_type, area_type) ==
    LET area == IF area_type = "Sq M" THEN "area_sqm" ELSE "area_sqft"
        price == IF price_type = "Price" THEN "price"
                 ELSE IF area = "area_sqm" THEN "price_sqm" ELSE "price_sqft"
    IN  <<price, area>>

\* polars expressions over one column, as used by the filters of df_filter
IsIn(col, values) == [op |-> "is_in", col |-> col, arg |-> values]
Contains(col, pat) == [op |-> "contains", col |-> col, arg |-> pat]
Eq(col, v) == [op |-> "eq", col |-> col, arg |-> v]
Le(col, bound) == [op |-> "le", col |-> col, arg |-> Num(bound, 1)]
Ge(col, bound) == [op |-> "ge", col |-> col, arg |-> Num(bound, 1)]
\* (mutant) a strict comparison
GtInt(col, bound) == [op |-> "ge_int", col |-> col, arg |-> bound + 1]

GeInt(col, bound) == [op |-> "ge_int", col |-> col, arg |-> bound]

\* the value of expression e on row r
Holds(r, e) ==
    CASE e.op = "is_in" -> r[e.col] \in e.arg
      [] e.op = "contains" -> str_contains(r[e.col], e.arg)
      [] e.op = "eq" -> r[e.col] = e.arg
      [] e.op = "le" -> NumLe(r[e.col], e.arg)
      [] e.op = "ge" -> NumGe(r[e.col], e.arg)
      [] e.op = "ge_int" -> r[e.col] >= e.arg

\* DataFrame.filter(*predicates): the rows on which every predicate holds.
\* An error raised by an earlier statement propagates through every step.
Filter(f, preds) ==
    IF ~IsOk(f) THEN f
    ELSE IF \E k \in 1..Len(preds) : preds[k].col \notin f.cols
    THEN Raised("ColumnNotFoundError")
    ELSE Frame(f.cols,
               SelectSeq(f.rows,
                         LAMBDA r : \A k \in 1..Len(preds) : Holds(r, preds[k])))

\* "if cond: df = df.filter(...)"
FilterIf(cond, f, preds) == IF cond THEN Filter(f, preds) ELSE f

\* (mutant) the filter assigned back to df
FilterAssigned(cond, f, preds) == IF cond THEN Filter(f, preds) ELSE f

\* "if cond: df.filter(...)": an expression statement; the frame it computes
\* is dropped, an error it raises is not
FilterDiscarded(cond, f, preds) ==
    IF cond /\ ~IsOk(Filter(f, preds)) THEN Filter(f, preds) ELSE f

\* (mutant) no column is dropped
Drop_nothing(f, names) == f

\* DataFrame.drop (strict): every named column must exist
Drop(f, names) ==
    IF ~IsOk(f) THEN f
    ELSE IF ~(names \subseteq f.cols) THEN Raised("ColumnNotFoundError")
    ELSE Frame(f.cols \ names,
               [i \in 1..Len(f.rows) |->
                   [c \in f.cols \ names |-> f.rows[i][c]]])

\* a null text value
NullText == <<"null">>

\* str.split_exact("y", 1): the text before the first "y", and the text
\* between the first and the second "y" (null without a first "y")
SplitExact(s) ==
    LET i == FindFirst(s, <<"y">>)
        rest == SubSeq(s, i + 1, Len(s))
        j == FindFirst(rest, <<"y">>)
    IN  IF i = 0 THEN <<s, NullText>>
        ELSE <<SubSeq(s, 1, i - 1),
               IF j = 0 THEN rest ELSE SubSeq(rest, 1, j - 1)>>

\* lines 185-192: with_columns(... split_exact ... alias("fields"))
\* .unnest("fields"), then the strict cast of year_count to Int32
ParseLease(f) ==
    IF ~IsOk(f) THEN f
    ELSE IF "lease_left" \notin f.cols THEN Raised("ColumnNotFoundError")
    ELSE IF {"year_count", "mth_count"} \cap f.cols # {}
    THEN Raised("DuplicateError")
    ELSE IF \E i \in 1..Len(f.rows) :
                ~IsNumeral(SplitExact(f.rows[i].lease_left)[1])
    THEN Raised("InvalidOperationError")
    ELSE Frame(f.cols \cup {"year_count", "mth_count"},
               [i \in 1..Len(f.rows) |->
                   LET parts == SplitExact(f.rows[i].lease_left)
                   IN  [c \in f.cols \cup {"year_count", "mth_count"} |->
                           IF c = "year_count" THEN NumeralValue(parts[1])
                           ELSE IF c = "mth_count" THEN parts[2]
                           ELSE f.rows[i][c]]])

SeqRange(seq) == {seq[i] : i \in 1..Len(seq)}

df_filter(month, town, flat, area_type, max_area, min_area, price_type, max_price, min_price, min_lease, max_lease, street_name, selected, data_json) ==
    LET months == SeqRange(LastN(selected, month))
        cols == convert_price_area(price_type, area_type)
        price_col == cols[1]
        area_col == cols[2]
        s0 == DataFrame(data_json)
        s1 == Filter(s0, <<IsIn("month", months), IsIn("flat", flat)>>)
        s2 == FilterIf(street_name # <<>>, s1,
                       <<Contains("street_name", str_upper(street_name))>>)
        s3 == ParseLease(s2)
        s4 == FilterIf(Truthy(max_lease), s3,
                       <<GeInt("year_count", max_lease[1])>>)
        s5 == FilterIf(Truthy(min_lease), s4,
                       <<GeInt("year_count", min_lease[1])>>)
        s6 == Drop(s5, IF area_col = "area_sqft"
                       THEN {"price_sqm", "area_sqm"}
                       ELSE {"price_sqft", "area_sqft"})
        s7 == FilterIf(town # "All", s6, <<Eq("town", town)>>)
        s8 == FilterIf(Truthy(max_price), s7, <<Le(price_col, max_price[1])>>)
        s9 == FilterIf(Truthy(min_price), s8, <<Ge(price_col, min_price[1])>>)
        s10 == FilterDiscarded(Truthy(max_area), s9,
                               <<Le(area_col, max_area[1])>>)
        s11 == FilterIf(Truthy(min_area), s10, <<Ge(area_col, min_area[1])>>)
    IN  s11

----------------------------------------------------------------------------
(* The summary text *)

\* min() / max() of a column's values
ColMin(rows, col) ==
    LET vals == {rows[i][col] : i \in 1..Len(rows)}
    IN  CHOOSE v \in vals : \A w \in vals : NumLe(v, w)
ColMax(rows, col) ==
    LET vals == {rows[i][col] : i \in 1..Len(rows)}
    IN  CHOOSE v \in vals : \A w \in vals : NumLe(w, v)

TextRaised(e) == [state |-> "raised", err |-> e]

\* the four selects of one branch of update_text
Summary(f, price_col, area_col, price_label, area_label, records) ==
    IF ~({price_col, area_col} \subseteq f.cols)
    THEN TextRaised("ColumnNotFoundError")
    ELSE [state |-> "summary",
          price_label |-> price_label,
          price_min |-> ColMin(f.rows, price_col),
          price_max |-> ColMax(f.rows, price_col),
          area_label |-> area_label,
          area_min |-> ColMin(f.rows, area_col),
          area_max |-> ColMax(f.rows, area_col),
          records |-> records]

update_text(data, town, area_type, price_type, max_lease, min_lease) ==
    LET f == DataFrame(data)
        records == Len(f.rows)
    IN  IF records > 0
        THEN CASE price_type = "Price" /\ area_type = "Sq M" ->
                    Summary(f, "price", "area_sqm", price_type, area_type,
                            records)
               [] price_type = "Price" /\ area_type = "Sq Feet" ->
                    Summary(f, "price", "area_sqft", price_type, area_type,
                            records)
               [] price_type = "Price / Area" /\ area_type = "Sq M" ->
                    \* max(df.select("price_sqm").to_serise())
                    IF "price_sqm" \in f.cols THEN TextRaised("AttributeError")
                    ELSE TextRaised("ColumnNotFoundError")
               [] price_type = "Price / Area" /\ area_type = "Sq Feet" ->
                    Summary(f, "price_sqft", "area_sqft", "Price / Sq Feet",
                            area_type, records)
               [] OTHER -> TextRaised("UnboundLocalError")
        ELSE [state |-> "no_results"]

----------------------------------------------------------------------------
(* The callbacks *)

\* the values the widgets offer
MonthOptions == {3, 6}
flat_type_grps == {df.rows[i].flat : i \in 1..Len(df.rows)}
towns == {"All"} \cup {df.rows[i].town : i \in 1..Len(df.rows)}
FlatChoices == {flat_type_grps, {<<"4", "R", "M">>}, {}}
TownChoices == {"All", "BEDOK"}
MinLeaseChoices == {None, Some(70)}
MaxLeaseChoices == {None, Some(90)}
AreaChoices == {None, Some(90)}
MaxPriceChoices == {None, Some(0), Some(500)}
MinPriceChoices == {None, Some(500)}
StreetChoices == {<<>>, <<"m", "a", "i", "n">>}

Widgets ==
    [month : MonthOptions, town : TownChoices, flat : FlatChoices,
     area_type : {"Sq Feet", "Sq M"}, price_type : {"Price", "Price / Area"},
     max_lease : MaxLeaseChoices, min_lease : MinLeaseChoices,
     max_area : AreaChoices, min_area : AreaChoices,
     max_price : MaxPriceChoices, min_price : MinPriceChoices,
     street_name : StreetChoices]

\* the call of df_filter made by filtered_data: max_lease and min_lease are
\* passed in the positions of df_filter's min_lease and max_lease
filtered_data(w, data_json) ==
    df_filter(w.month, w.town, w.flat, w.area_type, w.max_area, w.min_area,
              w.price_type, w.max_price, w.min_price, w.max_lease,
              w.min_lease, w.street_name, selected_mths, data_json)

\* the widget values of a freshly loaded page
DefaultWidgets ==
    [month |-> 6, town |-> "All", flat |-> flat_type_grps,
     area_type |-> "Sq Feet", price_type |-> "Price",
     max_lease |-> None, min_lease |-> None, max_area |-> None,
     min_area |-> None, max_price |-> None, min_price |-> None,
     street_name |-> <<>>]

\* (mutant) a callback that keeps the frame df_filter built as the table
FilteredData_persist(w) ==
    /\ pc = "serving"
    /\ widgets' = w
    /\ \E out \in {filtered_data(w, data_store)} :
          IF IsOk(out)
          THEN /\ view' = [state |-> "set", frame |-> out]
               /\ text' = [state |-> "pending"]
               /\ df' = out
               /\ data_store' = to_dicts(out)
          ELSE /\ view' = [state |-> "raised", err |-> out.err]
               /\ text' = NoView
               /\ UNCHANGED <<df, data_store>>
    /\ again' = NoView
    /\ UNCHANGED <<dataset, pc, fetchVars, exc>>

\* the submit button: filtered_data runs on the widget values and the
\* data-store; its output goes to the filtered-data store, which triggers
\* update_text.  The outcome depends on w and on the data-store alone, which
\* no callback writes, so a later query with values w reaches the state a
\* first query with w reaches: the first query of a session draws w from all
\* of Widgets, a later one is the query of a reloaded page.
FilteredData(w) ==
    /\ pc = "serving"
    /\ widgets' = w
    /\ \E out \in {filtered_data(w, data_store)} :
          IF IsOk(out)
          THEN /\ view' = [state |-> "set", frame |-> out]
               /\ text' = [state |-> "pending"]
          ELSE /\ view' = [state |-> "raised", err |-> out.err]
               /\ text' = NoView
    /\ again' = NoView
    /\ UNCHANGED <<dataset, pc, fetchVars, exc, df, data_store>>

UpdateText ==
    /\ pc = "serving"
    /\ view.state = "set"
    /\ text.state = "pending"
    /\ text' = update_text(to_dicts(view.frame), widgets.town,
                           widgets.area_type, widgets.price_type,
                           widgets.max_lease, widgets.min_lease)
    /\ UNCHANGED <<dataset, pc, fetchVars, exc, df, data_store,
                   widgets, view, again>>

\* df_filter applied, with the same widget values, to the view it returned
Refilter ==
    /\ pc = "serving"
    /\ view.state = "set"
    /\ again = NoView
    /\ \E out \in {filtered_data(widgets, to_dicts(view.frame))} :
          again' = IF IsOk(out) THEN [state |-> "set", frame |-> out]
                   ELSE [state |-> "raised", err |-> out.err]
    /\ UNCHANGED <<dataset, pc, fetchVars, exc, df, data_store,
                   widgets, view, text>>

\* the rows of the periods whose response was a 200, in period order
RECURSIVE FetchedRowsFrom(_)
FetchedRowsFrom(i) ==
    IF i > Len(recent_periods) THEN <<>>
    ELSE (IF outcome[recent_periods[i]] = "ok"
          THEN RemoteRecords(dataset, recent_periods[i]) ELSE <<>>)
         \o FetchedRowsFrom(i + 1)
FetchedRows == FetchedRowsFrom(1)

\* the application once the start-up has built the canonical table: every
\* period whose records are all well formed was fetched, in period order
InitQuery ==
    /\ dataset \in Datasets
    /\ pc = "serving"
    /\ nsubmitted = Len(recent_periods)
    /\ nthreads = max_workers
    /\ fstate = [p \in Periods |-> "consumed"]
    /\ outcome = [p \in Periods |->
                     IF \A i \in 1..Len(RemoteRecords(dataset, p)) :
                           LET r == RemoteRecords(dataset, p)[i]
                           IN  /\ IsNumeral(r.floor_area_sqm)
                               /\ IsNumeral(r.resale_price)
                               /\ NumeralValue(r.floor_area_sqm) # 0
                     THEN "ok" ELSE "non200"]
    /\ requests = [p \in Periods |-> 1]
    /\ recent_df = DataFrame(FetchedRows)
    /\ exc = NoErr
    /\ df = normalize(recent_df)
    /\ data_store = to_dicts(df)
    /\ widgets = NoWidgets
    /\ view = NoView
    /\ again = NoView
    /\ text = NoView

NextQuery ==
    \/ widgets = NoWidgets /\ \E w \in Widgets : FilteredData(w)
    \/ /\ widgets # NoWidgets
       /\ text.state # "pending"
       /\ FilteredData(DefaultWidgets)
    \/ UpdateText
    \/ Refilter

SpecQuery == InitQuery /\ [][NextQuery]_vars

\* the start of a run against the clean dataset (the scheduling of the fetch
\* stage does not read the records)
InitClean == InitWith("clean")

\* the worker threads take queued work items and the main thread runs; no
\* fairness is assumed of the remote (Respond): requests.get has no timeout
FairSpec ==
    /\ InitClean
    /\ [][Next]_vars
    /\ WF_vars(\E p \in Periods : Start(p))
    /\ WF_vars(\E p \in Periods, r \in Responses : Collect(p, r))
    /\ WF_vars(Join)

----------------------------------------------------------------------------
(* Claims about the fetch-and-merge stage *)

FetchStageOver == pc \notin {"submit", "collect", "join"}
FetchRaised == pc = "crashed" /\ exc \in {"ConnectionError", "ShapeError"}

RowsOfPeriod(rows, p) == Len(SelectSeq(rows, LAMBDA r : r.month = p))

\* C1: whatever subset of the periods fails (a non-200 response or an
\* exception raised by requests.get), the fetch-and-merge stage ends without
\* raising, every period has been requested, a failed period contributes no
\* row and every other period contributes all of its rows.
C1_FailedPeriodsTolerated ==
    FetchStageOver =>
        /\ ~FetchRaised
        /\ \A p \in Periods :
              /\ requests[p] = 1
              /\ RowsOfPeriod(recent_df.rows, p) =
                    IF outcome[p] = "ok"
                    THEN Len(RemoteRecords(dataset, p)) ELSE 0

\* C2: at most 4 period requests are in flight at any time, and each period
\* is requested exactly once (never twice, and once by the end of the stage).
C2_AtMostFourInFlight ==
    /\ Cardinality(Running) <= 4
    /\ \A p \in Periods : requests[p] <= 1
    /\ FetchStageOver => \A p \in Periods : requests[p] = 1

\* four requests in flight while further periods wait in the queue
C2_Witness == Cardinality(Running) = 4 /\ Cardinality(Queued) = 2

\* C3: the fetch-and-merge stage ends (handing the merged table to the
\* normalization, or propagating an exception) only once every dispatched
\* fetch has completed or failed, and once every fetch has completed or
\* failed the stage does end.
C3_JoinBarrier ==
    /\ [](FetchStageOver => AllFetched)
    /\ (AllFetched ~> FetchStageOver)

\* the stage has ended and handed a merged table with rows to the
\* normalization, every fetch having completed, one of them with a non-200
C3_Witness ==
    /\ pc = "normalize"
    /\ AllFetched
    /\ Len(recent_df.rows) > 0
    /\ \E p \in Periods : outcome[p] = "non200"

\* C4: when every fetch returns a batch (none raises), the merge succeeds in
\* every completion order, also with empty batches anywhere in that order,
\* and the merged table holds exactly the rows of the fetched batches.
C4_MergeInAnyOrder ==
    (FetchStageOver /\ \A p \in Periods : outcome[p] # "transport") =>
        /\ ~FetchRaised
        /\ RowBag(recent_df.rows) = RowBag(FetchedRows)

----------------------------------------------------------------------------
(* Claims about the normalization *)

Compact(n) == Numeral(n) \o <<"y">>
CompactYM(n, m) == Numeral(n) \o <<"y">> \o Numeral(m) \o <<"m">>

\* C7: a remaining lease "<N> years <M> months" becomes "<N>y<M>m" and
\* "<N> years" becomes "<N>y" in the canonical table, for singular and plural
\* unit words alike.
C7_LeaseCompacted ==
    pc = "serving" =>
        \A i \in 1..Len(df.rows) : \A n \in 1..99 :
            /\ recent_df.rows[i].remaining_lease = YearsText(n)
                  => df.rows[i].lease_left = Compact(n)
            /\ \A m \in 1..11 :
                  recent_df.rows[i].remaining_lease = YearsMonthsText(n, m)
                      => df.rows[i].lease_left = CompactYM(n, m)

GoodRecord(r) ==
    /\ IsNumeral(r.floor_area_sqm)
    /\ IsNumeral(r.resale_price)
    /\ NumeralValue(r.floor_area_sqm) # 0

\* C10: the normalization never aborts on a bad record; it drops the records
\* whose floor area is zero or whose floor area or price is not a number,
\* and the canonical table holds one row for each of the other records.
C10_BadRecordsDropped ==
    /\ ~(pc = "crashed" /\ exc = "InvalidOperationError")
    /\ pc = "serving" =>
          /\ \A i \in 1..Len(df.rows) : df.rows[i].area_sqm.n # 0
          /\ Len(df.rows) = Len(SelectSeq(recent_df.rows, GoodRecord))

----------------------------------------------------------------------------
(* Claims about the filter query and the summary *)

Submitted == widgets # NoWidgets

NoOptionalConstraint ==
    /\ widgets.town = "All"
    /\ widgets.street_name = <<>>
    /\ \A k \in {"max_lease", "min_lease", "max_area", "min_area",
                 "max_price", "min_price"} : widgets[k] = None

\* the columns every view keeps from the canonical table
CommonCols == {"month", "town", "flat", "street_name", "storey_range",
               "lease_left", "price"}
Project(rows, cs) == [i \in 1..Len(rows) |-> [c \in cs |-> rows[i][c]]]

\* m is one of the last k entries of the month sequence
InTrailingMonths(m, k) ==
    \E i \in 1..Len(selected_mths) :
        i > Len(selected_mths) - k /\ selected_mths[i] = m

MonthAndFlatMatch(r) ==
    /\ InTrailingMonths(r.month, widgets.month)
    /\ r.flat \in widgets.flat

\* C5: with town "All", no bound and no street substring, the view df_filter
\* returns holds exactly the rows of the canonical table whose month is among
\* the last `month` months and whose flat is one of the selected flat types;
\* with no flat type selected it holds no row.
C5_MonthAndFlatOnly ==
    (Submitted /\ view.state = "set" /\ NoOptionalConstraint) =>
        /\ Project(view.frame.rows, CommonCols) =
              Project(SelectSeq(df.rows, MonthAndFlatMatch), CommonCols)
        /\ widgets.flat = {} => view.frame.rows = <<>>

\* a query without optional constraints that returns some rows, while the
\* month window excludes a row of a selected flat type and the flat types
\* exclude a row of the month window
C5_Witness ==
    /\ Submitted /\ view.state = "set" /\ NoOptionalConstraint
    /\ view.frame.rows # <<>>
    /\ \E i \in 1..Len(df.rows) :
          /\ df.rows[i].flat \in widgets.flat
          /\ ~InTrailingMonths(df.rows[i].month, widgets.month)
    /\ \E i \in 1..Len(df.rows) :
          /\ df.rows[i].flat \notin widgets.flat
          /\ InTrailingMonths(df.rows[i].month, widgets.month)

\* C6: df_filter applied again, with the same values, to the view it returned
\* succeeds and returns the rows of the first application.
C6_FilterIdempotent ==
    again # NoView =>
        /\ again.state = "set"
        /\ again.frame.rows = view.frame.rows

IsMinOf(v, rows, col) ==
    /\ \E i \in 1..Len(rows) : rows[i][col] = v
    /\ \A i \in 1..Len(rows) : NumLe(v, rows[i][col])
IsMaxOf(v, rows, col) ==
    /\ \E i \in 1..Len(rows) : rows[i][col] = v
    /\ \A i \in 1..Len(rows) : NumLe(rows[i][col], v)

\* C8: for each of the four price_type x area_type combinations, update_text
\* on a non-empty view completes and reports the minimum and maximum of the
\* resolved price column and of the resolved area column; on a view without
\* rows it reports that the search has no results.
C8_SummaryIsMinMax ==
    (view.state = "set" /\ text.state \notin {"unset", "pending"}) =>
        LET rows == view.frame.rows
            cols == convert_price_area(widgets.price_type, widgets.area_type)
        IN  IF rows = <<>> THEN text.state = "no_results"
            ELSE /\ text.state = "summary"
                 /\ IsMinOf(text.price_min, rows, cols[1])
                 /\ IsMaxOf(text.price_max, rows, cols[1])
                 /\ IsMinOf(text.area_min, rows, cols[2])
                 /\ IsMaxOf(text.area_max, rows, cols[2])

LeaseParses(r) == IsNumeral(SplitExact(r.lease_left)[1])

\* C9: a row that survives the month, flat and street filters and whose
\* lease_left does not parse into a year_count is dropped; the query returns
\* the remaining rows and never fails because of such a row.
C9_UnparsableLeaseDropped ==
    Submitted =>
        /\ view.state = "set"
        /\ \A i \in 1..Len(view.frame.rows) : LeaseParses(view.frame.rows[i])

\* C11: no filter query changes the canonical table or the data-store: they
\* keep their rows and their eleven columns (the data-store being the copy of
\* the table), and year_count and mth_count are never added to them.
C11_TableReadOnly ==
    /\ [](/\ df.cols = table_cols
          /\ Cardinality(df.cols) = 11
          /\ data_store = to_dicts(df)
          /\ \A i \in 1..Len(data_store) :
                DOMAIN data_store[i] = table_cols)
    /\ [][df' = df /\ data_store' = data_store]_vars

\* a query has returned a view with rows that carries year_count and
\* mth_count, and df_filter has run again on that view
C11_Witness ==
    /\ Submitted /\ view.state = "set"
    /\ view.frame.rows # <<>>
    /\ {"year_count", "mth_count"} \subseteq view.frame.cols
    /\ again # NoView
    /\ df.rows # <<>>

\* the price column the widgets resolve to
ResolvedPrice == convert_price_area(widgets.price_type, widgets.area_type)[1]
\* the area column the widgets resolve to
ResolvedArea == convert_price_area(widgets.price_type, widgets.area_type)[2]

\* C12: whatever number is supplied as max_price, 0 included, every row of
\* the view has its resolved price <= max_price; whatever number is supplied
\* as min_price, every row has its resolved price >= min_price.
C12_PriceBoundsApplied ==
    (Submitted /\ view.state = "set") =>
        \A i \in 1..Len(view.frame.rows) :
            /\ widgets.max_price # None =>
                  NumLe(view.frame.rows[i][ResolvedPrice],
                        Num(widgets.max_price[1], 1))
            /\ widgets.min_price # None =>
                  NumGe(view.frame.rows[i][ResolvedPrice],
                        Num(widgets.min_price[1], 1))

\* the widget values with both lease bounds cleared
NoLeaseBound == [widgets EXCEPT !.max_lease = None, !.min_lease = None]

\* r satisfies year_count >= b for each lease bound b that is set
MeetsLeaseBounds(r) ==
    /\ widgets.min_lease # None => r.year_count >= widgets.min_lease[1]
    /\ widgets.max_lease # None => r.year_count >= widgets.max_lease[1]

\* C13: a query through filtered_data keeps, of the rows the same query
\* without lease bounds returns, exactly those with year_count >= min_lease
\* (when set) and year_count >= max_lease (when set); df_filter called with
\* the two values in each other's parameter returns the same rows.
C13_LeaseBoundsBothGe ==
    (Submitted /\ view.state = "set") =>
        /\ view.frame.rows =
              SelectSeq(filtered_data(NoLeaseBound, data_store).rows,
                        MeetsLeaseBounds)
        /\ view.frame.rows =
              df_filter(widgets.month, widgets.town, widgets.flat,
                        widgets.area_type, widgets.max_area, widgets.min_area,
                        widgets.price_type, widgets.max_price,
                        widgets.min_price, widgets.min_lease,
                        widgets.max_lease, widgets.street_name, selected_mths,
                        data_store).rows

\* both lease bounds are set to different values; the view has a row, and the
\* query without lease bounds returns a row that only max_lease excludes
C13_Witness ==
    /\ Submitted /\ view.state = "set"
    /\ widgets.min_lease # None /\ widgets.max_lease # None
    /\ widgets.min_lease # widgets.max_lease
    /\ view.frame.rows # <<>>
    /\ \E i \in 1..Len(filtered_data(NoLeaseBound, data_store).rows) :
          LET r == filtered_data(NoLeaseBound, data_store).rows[i]
          IN  /\ r.year_count >= widgets.min_lease[1]
              /\ r.year_count < widgets.max_lease[1]

\* the widget values with max_area, respectively min_area, cleared
NoMaxArea == [widgets EXCEPT !.max_area = None]
NoMinArea == [widgets EXCEPT !.min_area = None]

MeetsMinArea(r) ==
    widgets.min_area # None =>
        NumGe(r[ResolvedArea], Num(widgets.min_area[1], 1))

\* C14: the view of a query equals the view of the same query without
\* max_area; and it holds, of the rows the same query without min_area
\* returns, exactly those whose resolved area is >= min_area.
C14_MaxAreaIgnored ==
    (Submitted /\ view.state = "set") =>
        /\ view.frame = filtered_data(NoMaxArea, data_store)
        /\ view.frame.rows =
              SelectSeq(filtered_data(NoMinArea, data_store).rows, MeetsMinArea)

\* max_area and min_area are both set; the view holds a row whose area is
\* above max_area, and min_area has excluded a row
C14_Witness ==
    /\ Submitted /\ view.state = "set"
    /\ widgets.max_area # None /\ widgets.min_area # None
    /\ \E i \in 1..Len(view.frame.rows) :
          ~NumLe(view.frame.rows[i][ResolvedArea],
                 Num(widgets.max_area[1], 1))
    /\ Len(view.frame.rows) < Len(filtered_data(NoMinArea, data_store).rows)

\* the two columns of the unit the widgets did not select
OtherUnitCols ==
    IF widgets.area_type = "Sq M" THEN {"area_sqft", "price_sqft"}
    ELSE {"area_sqm", "price_sqm"}

\* C15: convert_price_area resolves Price/Sq M to (price, area_sqm),
\* Price/Sq Feet to (price, area_sqft), Price / Area/Sq M to (price_sqm,
\* area_sqm) and Price / Area/Sq Feet to (price_sqft, area_sqft); the view
\* df_filter returns has the resolved price and area columns and neither
\* column of the other unit.
C15_ResolvedColumnsOnly ==
    /\ convert_price_area("Price", "Sq M") = <<"price", "area_sqm">>
    /\ convert_price_area("Price", "Sq Feet") = <<"price", "area_sqft">>
    /\ convert_price_area("Price / Area", "Sq M") = <<"price_sqm", "area_sqm">>
    /\ convert_price_area("Price / Area", "Sq Feet") =
          <<"price_sqft", "area_sqft">>
    /\ (Submitted /\ view.state = "set") =>
          /\ {ResolvedPrice, ResolvedArea} \subseteq view.frame.cols
          /\ OtherUnitCols \cap view.frame.cols = {}
          /\ \A i \in 1..Len(view.frame.rows) :
                DOMAIN view.frame.rows[i] = view.frame.cols

\* a per-area query in square metres has returned a view with rows
C15_Witness ==
    /\ Submitted /\ view.state = "set"
    /\ widgets.price_type = "Price / Area" /\ widgets.area_type = "Sq M"
    /\ view.frame.rows # <<>>
    /\ "price_sqm" \in view.frame.cols

====
